---- MODULE Spec2Model ----
(***************************************************************************)
(* Model of glue/core/subset_group.py: SubsetGroup (the Group) and         *)
(* GroupedSubset (the member).                                             *)
(*                                                                         *)
(* Objects have identity.  GroupedSubset instances live in the heap `objs` *)
(* (a member's id is its index); a member that was removed from a group's  *)
(* list keeps existing there, as it does for anyone still holding it.      *)
(* Methods are operators that take the program state as a record W (the    *)
(* "world") and return the world after the call, so that a method that     *)
(* calls other methods is the composition of their operators.  Every call  *)
(* of Subset.broadcast, Data.add_subset and list.remove is appended to     *)
(* W.log with a snapshot of the world at the moment of the call.           *)
(*                                                                         *)
(* Defined in other modules of glue: Pointer (glue.core.util),            *)
(* Subset.__init__ and Subset.broadcast (glue.core.subset),                *)
(* Data.add_subset, DataCollection and Hub.  Pointer is modelled as the    *)
(* read/write-through attribute proxy the documentation describes;         *)
(* Subset.__init__ as binding `data`; Subset.broadcast and                 *)
(* Data.add_subset as the recorded call.  There is one group, "sg": groups *)
(* share no state, and every member of the heap is one of its members,     *)
(* present or removed.                                                     *)
(*                                                                         *)
(* SubsetState instances have identity too: those of States are built by   *)
(* client code and held by other subsets, which may change in place what   *)
(* they select (`content`); those of Copies are built by SubsetState.copy  *)
(* (glue.core.subset), modelled as returning a new instance that selects   *)
(* what the original selects.                                              *)
(***************************************************************************)
EXTENDS Integers, Sequences, FiniteSets, TLC

\* The number of GroupedSubset objects ever constructed.
MaxSubsets == 3

None == "None"
\* SubsetGroup instances.
Groups == {"sg"}
\* Data instances.
Data == {"d1", "d2"}
\* label values besides None.
Labels == {"A"}
\* SubsetState instances that client code builds and that other subsets hold;
\* "s0" is the one SubsetState() builds for the group.
States == {"s0", "s1"}
\* SubsetState instances that SubsetState.copy builds.
Copies == {"k0", "k1", "j0", "j1"}
\* What a SubsetState selects.
Contents == {"c0", "c1"}
\* VisualAttributes instances: those a group's style is set to, those a
\* member's style is set to.
Styles == {"v1", "v2"}
Overrides == {"o1"}
VisualAttributes == Styles \cup Overrides
\* The attributes of a group that are assigned: those __setattr__ forwards to
\* the members, and _style, which it does not.
Forwarded == {"subset_state", "label", "style"}
Attrs == Forwarded \cup {"_style"}

VARIABLES
    subsets,        \* SubsetGroup.subsets: the list of members, per group
    subset_state,   \* SubsetGroup.subset_state, per group
    label,          \* SubsetGroup.label, per group
    style,          \* SubsetGroup._style, per group
    objs,           \* heap of GroupedSubset objects: data, group, _style_override
    attached,       \* per Data: the members handed to its add_subset, in call order
    hub,            \* the groups subscribed to the collection's hub
    collection,     \* the DataCollection: its datasets, in order
    content,        \* per SubsetState instance of States: what it selects
    log,            \* the calls the last operation made, in order
    last            \* the name of the last operation

vars == <<subsets, subset_state, label, style, objs, attached, hub,
          collection, content, log, last>>

----------------------------------------------------------------------------
\* The world record of the current state.
World ==
    [subsets |-> subsets, subset_state |-> subset_state, label |-> label,
     style |-> style, objs |-> objs, attached |-> attached,
     hub |-> hub, content |-> content, log |-> log]

\* What a listener can read at the moment of a call.
Snapshot(W) ==
    [subsets |-> W.subsets, subset_state |-> W.subset_state, label |-> W.label,
     style |-> W.style,
     overrides |-> [i \in 1..Len(W.objs) |-> W.objs[i].style_override]]

\* One recorded call.
Event(W, kind, s, item, via) ==
    [kind |-> kind, subset |-> s, item |-> item, via |-> via, seen |-> Snapshot(W)]

\* Subset.broadcast(item) on member s: the member emits a change notification.
Subset_broadcast(W, s, item, via) ==
    [W EXCEPT !.log = Append(@, Event(W, "broadcast", s, item, via))]

\* Data.add_subset(s) on dataset d.
Data_add_subset(W, d, s) ==
    [W EXCEPT !.attached[d] = Append(@, s),
              !.log = Append(W.log, Event(W, "add_subset", s, d, "add_subset"))]

----------------------------------------------------------------------------
\* GroupedSubset

\* Pointer(key).__get__: the attribute of the member's group.
Pointer_get(W, s, key) ==
    IF key = "subset_state" THEN W.subset_state[W.objs[s].group]
    ELSE W.label[W.objs[s].group]

\* Mutant: label declared with the key of subset_state.
GroupedSubset_label_wrong_key(W, s) == Pointer_get(W, s, "subset_state")

\* GroupedSubset.subset_state and GroupedSubset.label as read on member s.
GroupedSubset_subset_state(W, s) == Pointer_get(W, s, "subset_state")
GroupedSubset_label(W, s) == Pointer_get(W, s, "label")

\* Mutant: the new object starts with a style of its own.
GroupedSubset_init_with_own_style(data, group) ==
    [data |-> data, group |-> group, style_override |-> "o1"]

\* GroupedSubset(data, group): the new object, bound to data, owned by group,
\* without a style override.
GroupedSubset_init(data, group) ==
    [data |-> data, group |-> group, style_override |-> None]

\* Constructing a member puts it in the heap; its id is Len(W.objs) + 1.
New(W, data, group) ==
    [W EXCEPT !.objs = Append(@, GroupedSubset_init(data, group))]

\* Python's `a or b` on the values a style can take: None is false, a
\* VisualAttributes instance is true.
Or(a, b) == IF a \in VisualAttributes THEN a ELSE b

\* Mutant: the group's style first, the override only when the group has none.
GroupedSubset_style_group_first(W, s) ==
    Or(W.style[W.objs[s].group], W.objs[s].style_override)

\* GroupedSubset.style (getter).
GroupedSubset_style(W, s) ==
    Or(W.objs[s].style_override, W.style[W.objs[s].group])

\* GroupedSubset.style (setter).
GroupedSubset_set_style(W, s, value) ==
    [W EXCEPT !.objs[s].style_override = value]

\* Mutant: clears and notifies whether or not there was an override.
clear_override_style_unconditional(W, s) ==
    Subset_broadcast([W EXCEPT !.objs[s].style_override = None],
                     s, "style", "clear_override_style")

\* Mutant: notifies first and drops the override afterwards.
clear_override_style_notifies_first(W, s) ==
    IF W.objs[s].style_override # None
    THEN [Subset_broadcast(W, s, "style", "clear_override_style")
             EXCEPT !.objs[s].style_override = None]
    ELSE W

\* GroupedSubset.clear_override_style.
clear_override_style(W, s) ==
    IF W.objs[s].style_override # None
    THEN Subset_broadcast([W EXCEPT !.objs[s].style_override = None],
                          s, "style", "clear_override_style")
    ELSE W

\* Mutant: equality by value (label, selection-state, style) instead of by
\* identity.
GroupedSubset_eq_by_value(W, self, o) ==
    /\ GroupedSubset_label(W, self) = GroupedSubset_label(W, o)
    /\ GroupedSubset_subset_state(W, self) = GroupedSubset_subset_state(W, o)
    /\ GroupedSubset_style(W, self) = GroupedSubset_style(W, o)

\* GroupedSubset.__eq__.
GroupedSubset_eq(W, self, o) == o = self

----------------------------------------------------------------------------
\* SubsetGroup

\* SubsetGroup._clear_overrides: the loop, from position i of the list.
RECURSIVE clear_overrides_from(_, _, _)
clear_overrides_from(W, g, i) ==
    IF i > Len(W.subsets[g]) THEN W
    ELSE clear_overrides_from(clear_override_style(W, W.subsets[g][i]), g, i + 1)

\* Mutant: clears the override of every member ever made for the group,
\* removed ones included.
clear_overrides_of_removed_too(W, g) ==
    LET made == [i \in 1..Len(W.objs) |-> i]
        W1 == clear_overrides_from([W EXCEPT !.subsets[g] = made], g, 1)
    IN  [W1 EXCEPT !.subsets[g] = W.subsets[g]]

clear_overrides(W, g) == clear_overrides_from(W, g, 1)

\* The loop of SubsetGroup.broadcast, from position i of the list.
RECURSIVE broadcast_from(_, _, _, _)
broadcast_from(W, g, item, i) ==
    IF i > Len(W.subsets[g]) THEN W
    ELSE broadcast_from(Subset_broadcast(W, W.subsets[g][i], item, "broadcast"),
                        g, item, i + 1)

\* Mutant: no early return after clearing the overrides.
SubsetGroup_broadcast_falls_through(W, g, item) ==
    IF item \in VisualAttributes
    THEN broadcast_from(clear_overrides(W, g), g, item, 1)
    ELSE broadcast_from(W, g, item, 1)

\* SubsetGroup.broadcast.
SubsetGroup_broadcast(W, g, item) ==
    IF item \in VisualAttributes
    THEN clear_overrides(W, g)
    ELSE broadcast_from(W, g, item, 1)

\* object.__setattr__ and SubsetGroup.__setattr__ call each other through
\* the style property.
RECURSIVE SubsetGroup_setattr(_, _, _, _)

\* Mutant: the setter stores the style and leaves the overrides.
SubsetGroup_set_style_keeps_overrides(W, g, value) ==
    SubsetGroup_setattr(W, g, "_style", value)

\* SubsetGroup.style (setter): `self._style = value` is itself an assignment
\* to an attribute of the group.
SubsetGroup_set_style(W, g, value) ==
    clear_overrides(SubsetGroup_setattr(W, g, "_style", value), g)

\* object.__setattr__ on a group: `style` is a property, the rest are
\* instance attributes.
object_setattr(W, g, attr, value) ==
    CASE attr = "style" -> SubsetGroup_set_style(W, g, value)
      [] attr = "_style" -> [W EXCEPT !.style[g] = value]
      [] attr = "subset_state" -> [W EXCEPT !.subset_state[g] = value]
      [] attr = "label" -> [W EXCEPT !.label[g] = value]

\* Mutant: forwards the name and does not store the value.
SubsetGroup_setattr_stores_nothing(W, g, attr, value) ==
    IF attr \in {"subset_state", "label", "style"}
    THEN SubsetGroup_broadcast(W, g, attr)
    ELSE W

\* Mutant: forwards the name before it stores the value.
SubsetGroup_setattr_broadcasts_first(W, g, attr, value) ==
    LET W1 == IF attr \in {"subset_state", "label", "style"}
              THEN SubsetGroup_broadcast(W, g, attr)
              ELSE W
    IN  object_setattr(W1, g, attr, value)

\* SubsetGroup.__setattr__.
SubsetGroup_setattr(W, g, attr, value) ==
    LET W1 == object_setattr(W, g, attr, value)
    IN  IF attr \in {"subset_state", "label", "style"}
        THEN SubsetGroup_broadcast(W1, g, attr)
        ELSE W1

\* Pointer(key).__set__ on member s: setattr on the member's group.
Pointer_set(W, s, key, value) ==
    SubsetGroup_setattr(W, W.objs[s].group, key, value)

\* What the SubsetState instance state selects.  A copy is named after what
\* it selects and is not changed once built.
SubsetState_content(W, state) ==
    IF state \in States THEN W.content[state]
    ELSE IF state \in {"k0", "j0"} THEN "c0" ELSE "c1"

\* SubsetState.copy: a new instance that selects what state selects.  It is
\* an instance other than state, also when state is itself a copy.
SubsetState_copy(W, state) ==
    LET c == SubsetState_content(W, state)
    IN  IF state \in {"k0", "k1"}
        THEN (IF c = "c0" THEN "j0" ELSE "j1")
        ELSE (IF c = "c0" THEN "k0" ELSE "k1")

\* A change made in place to the SubsetState instance state.
SubsetState_change(W, state, c) == [W EXCEPT !.content[state] = c]

\* Mutant: paste shares the other subset's state instead of copying it.
paste_shares_state(W, g, other_subset_state) ==
    SubsetGroup_setattr(W, g, "subset_state", other_subset_state)

\* SubsetGroup.paste; other_subset_state is other_subset.subset_state.
paste(W, g, other_subset_state) ==
    LET state == SubsetState_copy(W, other_subset_state)
    IN  SubsetGroup_setattr(W, g, "subset_state", state)

\* SubsetGroup.register_to_hub.
register_to_hub(W, g) == [W EXCEPT !.hub = @ \cup {g}]

\* register, first loop: a member per dataset of data, from position i.
RECURSIVE register_create(_, _, _, _)
register_create(W, g, data, i) ==
    IF i > Len(data) THEN W
    ELSE LET W1 == New(W, data[i], g)
             s == Len(W1.objs)
         IN  register_create([W1 EXCEPT !.subsets[g] = Append(@, s)], g, data, i + 1)

\* register, second loop: zip(data, self.subsets), from position i.
RECURSIVE register_attach(_, _, _, _)
register_attach(W, g, data, i) ==
    IF i > Len(data) \/ i > Len(W.subsets[g]) THEN W
    ELSE register_attach(Data_add_subset(W, data[i], W.subsets[g][i]), g, data, i + 1)

\* Mutant: register subscribes and makes no member for the datasets the
\* collection already holds.
register_subscribes_only(W, g, data) == register_to_hub(W, g)

\* Mutant: register handles each dataset as _add_data does, attaching a
\* member before the next one is made.
RECURSIVE register_by_add_data(_, _, _)
register_by_add_data(W, g, data) ==
    IF data = <<>> THEN register_to_hub(W, g)
    ELSE LET W1 == New(W, Head(data), g)
             s == Len(W1.objs)
             W2 == [W1 EXCEPT !.subsets[g] = Append(@, s)]
         IN  register_by_add_data(Data_add_subset(W2, Head(data), s), g, Tail(data))

\* SubsetGroup.register.
register(W, g, data) ==
    register_attach(register_create(register_to_hub(W, g), g, data, 1), g, data, 1)

\* Mutant: the new member is put at the front of the list.
add_data_at_front(W, g, data) ==
    LET W1 == New(W, data, g)
        s == Len(W1.objs)
        W2 == Data_add_subset(W1, data, s)
    IN  [W2 EXCEPT !.subsets[g] = <<s>> \o @]

\* SubsetGroup._add_data.
add_data(W, g, data) ==
    LET W1 == New(W, data, g)
        s == Len(W1.objs)
        W2 == Data_add_subset(W1, data, s)
    IN  [W2 EXCEPT !.subsets[g] = Append(@, s)]

\* list.remove(x): drops the first item that equals x.
RECURSIVE list_remove(_, _, _)
list_remove(W, seq, x) ==
    IF seq = <<>> THEN <<>>
    ELSE IF GroupedSubset_eq(W, Head(seq), x) THEN Tail(seq)
    ELSE <<Head(seq)>> \o list_remove(W, Tail(seq), x)

\* self.subsets.remove(s) in group g.
subsets_remove(W, g, s) ==
    [W EXCEPT !.subsets[g] = list_remove(W, @, s),
              !.log = Append(@, Event(W, "remove", s, W.objs[s].data, "_remove_data"))]

\* The loop of _remove_data over the copy of the list, from position i.
RECURSIVE remove_data_from(_, _, _, _, _)
remove_data_from(W, g, data, copy, i) ==
    IF i > Len(copy) THEN W
    ELSE IF W.objs[copy[i]].data = data
    THEN remove_data_from(subsets_remove(W, g, copy[i]), g, data, copy, i + 1)
    ELSE remove_data_from(W, g, data, copy, i + 1)

\* SubsetGroup._remove_data.
remove_data(W, g, data) == remove_data_from(W, g, data, W.subsets[g], 1)

----------------------------------------------------------------------------
\* The hub delivers a message to every subscribed group, one after another.
RECURSIVE deliver_add(_, _, _)
deliver_add(W, gs, data) ==
    IF gs = {} THEN W
    ELSE LET g == CHOOSE x \in gs : TRUE
         IN  deliver_add(add_data(W, g, data), gs \ {g}, data)

RECURSIVE deliver_remove(_, _, _)
deliver_remove(W, gs, data) ==
    IF gs = {} THEN W
    ELSE LET g == CHOOSE x \in gs : TRUE
         IN  deliver_remove(remove_data(W, g, data), gs \ {g}, data)

\* A sequence without the item x.
RECURSIVE Without(_, _)
Without(seq, x) ==
    IF seq = <<>> THEN <<>>
    ELSE IF Head(seq) = x THEN Without(Tail(seq), x)
    ELSE <<Head(seq)>> \o Without(Tail(seq), x)

Range(seq) == {seq[i] : i \in 1..Len(seq)}

----------------------------------------------------------------------------
\* SubsetGroup.__init__ for every group: no members, SubsetState(), label
\* None, a VisualAttributes of its own.
Init ==
    /\ subsets = [g \in Groups |-> <<>>]
    /\ subset_state = [g \in Groups |-> "s0"]
    /\ label = [g \in Groups |-> None]
    /\ style = [g \in Groups |-> "v1"]
    /\ objs = <<>>
    /\ attached = [d \in Data |-> <<>>]
    /\ hub = {}
    /\ collection = <<>>
    /\ content = [s \in States |-> IF s = "s0" THEN "c0" ELSE "c1"]
    /\ log = <<>>
    /\ last = "__init__"

\* The state after an operation that started in the current state with an
\* empty log and ended in world W.
Becomes(W, op) ==
    /\ subsets' = W.subsets
    /\ subset_state' = W.subset_state
    /\ label' = W.label
    /\ style' = W.style
    /\ objs' = W.objs
    /\ attached' = W.attached
    /\ hub' = W.hub
    /\ content' = W.content
    /\ log' = W.log
    /\ last' = op

Start == [World EXCEPT !.log = <<>>]

Members == 1..Len(objs)

\* The values an attribute is assigned.
ValuesOf(attr) ==
    CASE attr = "subset_state" -> States
      [] attr = "label" -> Labels \cup {None}
      [] attr = "style" -> Styles
      [] attr = "_style" -> Styles

\* group.<attr> = value
SetAttr(g, attr, value) ==
    /\ Becomes(SubsetGroup_setattr(Start, g, attr, value), "__setattr__")
    /\ UNCHANGED collection

\* VisualAttributes.__setattr__ on the style object of g, whose parent is g:
\* g.broadcast(g.style)
Broadcast(g) ==
    /\ Becomes(SubsetGroup_broadcast(Start, g, style[g]), "broadcast")
    /\ UNCHANGED collection

\* g.paste(other_subset), for a subset whose state is st
Paste(g, st) ==
    /\ Becomes(paste(Start, g, st), "paste")
    /\ UNCHANGED collection

\* The holder of the SubsetState instance st changes what it selects
ChangeState(st, c) ==
    /\ Becomes(SubsetState_change(Start, st, c), "SubsetState.__setattr__")
    /\ UNCHANGED collection

\* g.register(data), for any iterable of datasets
Register(g, data) ==
    /\ Len(objs) + Len(data) <= MaxSubsets
    /\ Becomes(register(Start, g, data), "register")
    /\ UNCHANGED collection

\* g.register(collection), as DataCollection.new_subset_group calls it
RegisterOnce(g) ==
    /\ g \notin hub
    /\ Len(objs) + Len(collection) <= MaxSubsets
    /\ Becomes(register(Start, g, collection), "register")
    /\ UNCHANGED collection

\* g._add_data(d)
AddData(g, d) ==
    /\ Len(objs) + 1 <= MaxSubsets
    /\ Becomes(add_data(Start, g, d), "_add_data")
    /\ UNCHANGED collection

\* g._remove_data(d)
RemoveData(g, d) ==
    /\ Becomes(remove_data(Start, g, d), "_remove_data")
    /\ UNCHANGED collection

\* The collection gains dataset d and its hub tells the subscribers.
DcAppend(d) ==
    /\ d \notin Range(collection)
    /\ Len(objs) + Cardinality(hub) <= MaxSubsets
    /\ collection' = Append(collection, d)
    /\ Becomes(deliver_add(Start, hub, d), "DataCollectionAddMessage")

\* The collection loses dataset d and its hub tells the subscribers.
DcRemove(d) ==
    /\ d \in Range(collection)
    /\ collection' = Without(collection, d)
    /\ Becomes(deliver_remove(Start, hub, d), "DataCollectionDeleteMessage")

\* s.style = value
SetMemberStyle(s, value) ==
    /\ Becomes(GroupedSubset_set_style(Start, s, value), "GroupedSubset.style")
    /\ UNCHANGED collection

\* s.clear_override_style()
ClearOverrideStyle(s) ==
    /\ Becomes(clear_override_style(Start, s), "clear_override_style")
    /\ UNCHANGED collection

\* s.label = value, s.subset_state = value
SetMemberAttr(s, attr, value) ==
    /\ Becomes(Pointer_set(Start, s, attr, value), "Pointer.__set__")
    /\ UNCHANGED collection

\* The iterables of datasets register is called with.
DataLists == {<<>>, <<"d1">>, <<"d2">>, <<"d1", "d2">>, <<"d2", "d1">>}

\* Operations on the attributes of the group and of the members.
Mutate ==
    \/ \E g \in Groups, attr \in Attrs : \E value \in ValuesOf(attr) : SetAttr(g, attr, value)
    \/ \E g \in Groups : Broadcast(g)
    \/ \E g \in Groups, st \in States : Paste(g, st)
    \/ \E s \in Members, value \in Overrides \cup {None} : SetMemberStyle(s, value)
    \/ \E s \in Members : ClearOverrideStyle(s)
    \/ \E s \in Members, attr \in {"subset_state", "label"} :
          \E value \in ValuesOf(attr) : SetMemberAttr(s, attr, value)

\* The calls made on a group and its members once it exists: the two
\* handlers of the hub's messages and the assignments.
Next ==
    \/ Mutate
    \/ \E g \in Groups, d \in Data : AddData(g, d)
    \/ \E g \in Groups, d \in Data : RemoveData(g, d)

Spec == Init /\ [][Next]_vars

\* The group is registered once with the collection and then hears of its
\* datasets from the hub alone.
NextMirror ==
    \/ Mutate
    \/ \E g \in Groups : RegisterOnce(g)
    \/ \E d \in Data : DcAppend(d)
    \/ \E d \in Data : DcRemove(d)

SpecMirror == Init /\ [][NextMirror]_vars

\* register called at any time and with any datasets, among the handlers.
NextRegister ==
    \/ \E g \in Groups, data \in DataLists : Register(g, data)
    \/ \E g \in Groups, d \in Data : AddData(g, d)
    \/ \E g \in Groups, d \in Data : RemoveData(g, d)
    \/ \E g \in Groups, attr \in Attrs : \E value \in ValuesOf(attr) : SetAttr(g, attr, value)

SpecRegister == Init /\ [][NextRegister]_vars

\* paste among the assignments of a selection-state, while the other subsets
\* go on changing their own states.
NextPaste ==
    \/ \E g \in Groups, st \in States : Paste(g, st)
    \/ \E st \in States, c \in Contents : ChangeState(st, c)
    \/ \E g \in Groups, value \in States : SetAttr(g, "subset_state", value)
    \/ \E s \in Members, value \in States : SetMemberAttr(s, "subset_state", value)
    \/ \E g \in Groups, d \in Data : AddData(g, d)
    \/ \E g \in Groups, d \in Data : RemoveData(g, d)

SpecPaste == Init /\ [][NextPaste]_vars

----------------------------------------------------------------------------
\* Claims

TheGroup == "sg"

\* The step is a call of op; every action names its call in last.
Called(op) == last' = op

\* The positions in a log of the notifications clear_override_style emitted,
\* of those SubsetGroup.broadcast forwarded for an item, and of the
\* add_subset calls.
Cleared(l) == {k \in 1..Len(l) : l[k].via = "clear_override_style"}
ForwardedFor(l, item) == {k \in 1..Len(l) : l[k].via = "broadcast" /\ l[k].item = item}
AddSubsetCalls(l) == {k \in 1..Len(l) : l[k].kind = "add_subset"}

\* C1: in every reachable state, every member in a group's member list reads
\* a label and a selection-state identical to the group's current ones.
C1_ReadThrough ==
    \A g \in Groups : \A i \in 1..Len(subsets[g]) :
        /\ GroupedSubset_label(World, subsets[g][i]) = label[g]
        /\ GroupedSubset_subset_state(World, subsets[g][i]) = subset_state[g]

\* Two members read a label, a selection-state and a style that were all
\* assigned after construction, and a member has been removed.
C1_Witness ==
    /\ Len(subsets[TheGroup]) >= 2
    /\ Len(objs) > Len(subsets[TheGroup])
    /\ label[TheGroup] = "A"
    /\ subset_state[TheGroup] = "s1"
    /\ style[TheGroup] = "v2"

\* C2: a step that assigns style v to a group leaves no member of the group
\* with a local override, and every member's effective style is v.
C2_StyleAssignmentClearsOverrides ==
    [][Called("__setattr__") => \A g \in Groups, v \in Styles :
          SetAttr(g, "style", v) =>
              \A i \in 1..Len(subsets'[g]) :
                  /\ objs'[subsets'[g][i]].style_override = None
                  /\ GroupedSubset_style(World', subsets'[g][i]) = v]_vars

\* A style assignment to a group of three members, two of which held an
\* override and one of which did not.
C2_Witness ==
    /\ last = "__setattr__"
    /\ Len(subsets[TheGroup]) = 3
    /\ Cardinality(Cleared(log)) = 2
    /\ Cardinality(ForwardedFor(log, "style")) = 3

\* C3: a step that handles dataset-added for d constructs exactly one member,
\* bound to d and owned by the group, hands it to d's add_subset exactly once
\* and to no other dataset, and appends it to the list, whose previous
\* members keep their positions.
C3_AddDataAppendsOne ==
    [][Called("_add_data") => \A g \in Groups, d \in Data :
          AddData(g, d) =>
              LET new == Len(objs) + 1 IN
              /\ Len(objs') = new
              /\ \A s \in 1..Len(objs) : objs'[s] = objs[s]
              /\ objs'[new].data = d
              /\ objs'[new].group = g
              /\ subsets'[g] = Append(subsets[g], new)
              /\ Cardinality({i \in 1..Len(attached'[d]) : attached'[d][i] = new}) = 1
              /\ \A e \in Data \ {d} : new \notin Range(attached'[e])
              /\ Cardinality(AddSubsetCalls(log')) = 1]_vars

\* A member was added to a group that already had two members, one of them
\* bound to the same dataset.
C3_Witness ==
    /\ last = "_add_data"
    /\ Len(subsets[TheGroup]) = 3
    /\ subsets[TheGroup][3] = Len(objs)
    /\ \E i \in 1..2 : objs[subsets[TheGroup][i]].data = objs[Len(objs)].data

\* The members of a list that are not bound to dataset d, in order.
RECURSIVE NotBoundTo(_, _)
NotBoundTo(seq, d) ==
    IF seq = <<>> THEN <<>>
    ELSE IF objs[Head(seq)].data = d THEN NotBoundTo(Tail(seq), d)
    ELSE <<Head(seq)>> \o NotBoundTo(Tail(seq), d)

\* C4: a step that handles dataset-removed for d leaves in the list exactly
\* the members that are not bound to d, in their previous order.
C4_RemoveDataRemovesBound ==
    [][Called("_remove_data") => \A g \in Groups, d \in Data :
          RemoveData(g, d) => subsets'[g] = NotBoundTo(subsets[g], d)]_vars

\* A member that was not the first of the list was removed while the first
\* of the list had the same label, selection-state and style, and two
\* members remain.
C4_Witness ==
    /\ last = "_remove_data"
    /\ Len(subsets[TheGroup]) = 2
    /\ \E i \in 1..Len(log) :
          /\ log[i].kind = "remove"
          /\ log[i].seen.subsets[TheGroup][1] # log[i].subset
          /\ \A s \in Range(log[i].seen.subsets[TheGroup]) :
                log[i].seen.overrides[s] = None

\* C5: a group that is not registered has no member, and a registered group
\* has exactly one member for each dataset of the collection and no member
\* for any other dataset.
C5_MirrorsCollection ==
    \A g \in Groups :
        IF g \in hub
        THEN /\ \A d \in Range(collection) :
                  Cardinality({i \in 1..Len(subsets[g]) : objs[subsets[g][i]].data = d}) = 1
             /\ \A i \in 1..Len(subsets[g]) : objs[subsets[g][i]].data \in Range(collection)
        ELSE subsets[g] = <<>>

\* The registered group has a member for each of the two datasets of the
\* collection after one dataset was removed and added again.
C5_Witness ==
    /\ TheGroup \in hub
    /\ Len(collection) = 2
    /\ Len(subsets[TheGroup]) = 2
    /\ Len(objs) = 3
    /\ last = "DataCollectionAddMessage"

\* label or subset_state as member s reads it.
ReadAttr(W, s, attr) ==
    IF attr = "label" THEN GroupedSubset_label(W, s)
    ELSE GroupedSubset_subset_state(W, s)

\* C6: in every reachable state, writing a value to label or selection-state
\* through any member sets that attribute of the member's group to the value,
\* and every member in the group's list then reads the value.
C6_WriteThrough ==
    \A s \in Members, attr \in {"subset_state", "label"} :
        \A value \in ValuesOf(attr) :
            LET W == Pointer_set(Start, s, attr, value)
                g == objs[s].group
            IN  /\ (IF attr = "label" THEN W.label[g] ELSE W.subset_state[g]) = value
                /\ \A i \in 1..Len(W.subsets[g]) :
                      ReadAttr(W, W.subsets[g][i], attr) = value

\* The label "A" was written through a member of a group with three members.
C6_Witness ==
    /\ last = "Pointer.__set__"
    /\ Len(subsets[TheGroup]) = 3
    /\ label[TheGroup] = "A"
    /\ Cardinality(ForwardedFor(log, "label")) = 3

\* The group's attribute as a snapshot shows it.
SeenAttr(seen, g, attr) ==
    CASE attr = "label" -> seen.label[g]
      [] attr = "subset_state" -> seen.subset_state[g]
      [] attr = "style" -> seen.style[g]

\* C7: in every reachable state, assigning a value to selection-state, label
\* or style of a group makes every member in its list emit a notification
\* for that attribute, every notification of the assignment being emitted
\* with the value already installed on the group; assigning any other
\* attribute makes no member emit a notification.
C7_AssignmentFanOut ==
    \A g \in Groups, attr \in Attrs : \A value \in ValuesOf(attr) :
        LET l == SubsetGroup_setattr(Start, g, attr, value).log
        IN  IF attr \in {"subset_state", "label", "style"}
            THEN /\ \A i \in 1..Len(subsets[g]) : \E k \in 1..Len(l) :
                       /\ l[k].kind = "broadcast"
                       /\ l[k].subset = subsets[g][i]
                       /\ l[k].item = attr
                 /\ \A k \in 1..Len(l) :
                       /\ l[k].kind = "broadcast"
                       /\ l[k].item = attr
                       /\ SeenAttr(l[k].seen, g, attr) = value
            ELSE l = <<>>

\* A selection-state other than the one the group was built with was assigned
\* to a group of three members.
C7_Witness ==
    /\ last = "__setattr__"
    /\ Len(subsets[TheGroup]) = 3
    /\ subset_state[TheGroup] = "s1"
    /\ Cardinality(ForwardedFor(log, "subset_state")) = 3

\* C8: a member's effective style is its override when it holds one and its
\* group's current style when it holds none.
C8_EffectiveStyle ==
    \A s \in Members :
        GroupedSubset_style(World, s) =
            IF objs[s].style_override # None
            THEN objs[s].style_override
            ELSE style[objs[s].group]

\* Of two members of a group whose style was reassigned, one holds an
\* override and one holds none.
C8_Witness ==
    /\ style[TheGroup] = "v2"
    /\ \E i, j \in 1..Len(subsets[TheGroup]) :
          /\ objs[subsets[TheGroup][i]].style_override = "o1"
          /\ objs[subsets[TheGroup][j]].style_override = None

\* The positions in the list of g of the members that hold an override.
Overriding(g) == {i \in 1..Len(subsets[g]) : objs[subsets[g][i]].style_override # None}

\* C9: a step in which the group's broadcast is called with its style object
\* clears the override of every member in the list, and the notifications
\* emitted are exactly one 'style' notification from each member that held
\* an override, sent by clear_override_style.
C9_StyleObjectBroadcast ==
    [][Called("broadcast") => \A g \in Groups :
          Broadcast(g) =>
              /\ \A i \in 1..Len(subsets[g]) : objs'[subsets[g][i]].style_override = None
              /\ Len(log') = Cardinality(Overriding(g))
              /\ \A k \in 1..Len(log') :
                    /\ log'[k].kind = "broadcast"
                    /\ log'[k].item = "style"
                    /\ log'[k].via = "clear_override_style"
                    /\ \E i \in Overriding(g) : subsets[g][i] = log'[k].subset
              /\ \A i \in Overriding(g) : \E k \in 1..Len(log') :
                    log'[k].subset = subsets[g][i]]_vars

\* The style object was broadcast in a group of three members of which two
\* held an override.
C9_Witness ==
    /\ last = "broadcast"
    /\ Len(subsets[TheGroup]) = 3
    /\ Len(log) = 2

\* C10: a step that calls clear_override_style on a member emits one 'style'
\* notification from that member if it held an override and none if it did
\* not, leaves the member without an override, and a second call right after
\* changes nothing and emits nothing.
C10_ClearOverride ==
    [][Called("clear_override_style") => \A s \in Members :
          ClearOverrideStyle(s) =>
              /\ IF objs[s].style_override # None
                 THEN /\ Len(log') = 1
                      /\ log'[1].kind = "broadcast"
                      /\ log'[1].subset = s
                      /\ log'[1].item = "style"
                 ELSE log' = <<>>
              /\ objs'[s].style_override = None
              /\ clear_override_style([World' EXCEPT !.log = <<>>], s)
                    = [World' EXCEPT !.log = <<>>]]_vars

\* clear_override_style was called on a member that held an override while
\* another member of the group keeps its own.
C10_Witness ==
    /\ last = "clear_override_style"
    /\ Len(log) = 1
    /\ log[1].subset \in Range(subsets[TheGroup])
    /\ \E i \in 1..Len(subsets[TheGroup]) :
          objs[subsets[TheGroup][i]].style_override = "o1"

\* C11: a step that pastes from a subset whose state is st leaves the group
\* with a selection-state that selects what st selected and is another
\* instance than st; st selects what it did; a change made to st afterwards,
\* in the next step or at once, leaves what the group's state selects; and
\* every member of the list emitted a 'subset_state' notification at which
\* the group already held the copy.
C11_PasteCopies ==
    [][/\ Called("paste") => \A g \in Groups, st \in States :
            Paste(g, st) =>
                /\ SubsetState_content(World', subset_state'[g])
                       = SubsetState_content(World, st)
                /\ subset_state'[g] # st
                /\ content' = content
                /\ \A c \in Contents :
                       SubsetState_content(SubsetState_change(World', st, c),
                                           subset_state'[g])
                           = SubsetState_content(World, st)
                /\ \A i \in 1..Len(subsets'[g]) :
                       \E k \in ForwardedFor(log', "subset_state") :
                           /\ log'[k].subset = subsets'[g][i]
                           /\ log'[k].seen.subset_state[g] = subset_state'[g]
       /\ (Called("SubsetState.__setattr__") /\ last = "paste") =>
              \A g \in Groups :
                  SubsetState_content(World', subset_state'[g])
                      = SubsetState_content(World, subset_state[g])]_vars

\* The state the group pasted was changed by its holder in the next step:
\* the group of two members, with a third removed, selects what it pasted.
C11_Witness ==
    /\ last = "SubsetState.__setattr__"
    /\ subset_state[TheGroup] = "k1"
    /\ content["s0"] = "c0"
    /\ content["s1"] = "c0"
    /\ Len(subsets[TheGroup]) = 2
    /\ Len(objs) = 3

\* C12: of the members constructed so far, each equals itself and no two
\* distinct ones are equal, whatever their labels, states and styles.
C12_EqualityIsIdentity ==
    \A s \in Members, o \in Members :
        GroupedSubset_eq(World, s, o) <=> (s = o)

\* Two distinct members of the list, bound to the same dataset, that read
\* the same assigned label, the same state and the same style.
C12_Witness ==
    \E s \in Range(subsets[TheGroup]), o \in Range(subsets[TheGroup]) :
        /\ s # o
        /\ objs[s].data = objs[o].data
        /\ label[TheGroup] = "A"
        /\ GroupedSubset_label(World, s) = GroupedSubset_label(World, o)
        /\ GroupedSubset_subset_state(World, s) = GroupedSubset_subset_state(World, o)
        /\ GroupedSubset_style(World, s) = GroupedSubset_style(World, o)

\* C13: in a step that registers a group without members for the datasets
\* data, at the first call of add_subset, and at every later one, the
\* group's list holds one member per dataset of data, the i-th bound to the
\* i-th dataset.
C13_PopulatedBeforeFirstAttach ==
    [][Called("register") => \A g \in Groups, data \in DataLists :
          (Register(g, data) /\ subsets[g] = <<>>) =>
              \A k \in AddSubsetCalls(log') :
                  LET seen == log'[k].seen.subsets[g]
                  IN  /\ Len(seen) = Len(data)
                      /\ \A i \in 1..Len(data) : objs'[seen[i]].data = data[i]]_vars

\* A register of a group that never had a member, for two datasets: two
\* members made, two add_subset calls.
C13_Witness ==
    /\ last = "register"
    /\ Len(objs) = 2
    /\ Len(subsets[TheGroup]) = 2
    /\ Cardinality(AddSubsetCalls(log)) = 2
    /\ log[1].kind = "add_subset"
    /\ Len(log[1].seen.subsets[TheGroup]) = 2

\* C14: at every call of add_subset that the last operation made, be it
\* register or _add_data, the list of the member's group already held the
\* member that was handed over.
C14_ListedBeforeAttached ==
    \A k \in AddSubsetCalls(log) :
        log[k].subset \in Range(log[k].seen.subsets[objs[log[k].subset].group])

\* C15: after any sequence of register, _add_data and _remove_data, every
\* member a dataset was handed is bound to that dataset, and every member
\* of a group's list was handed to its dataset exactly once.
C15_AttachedOnceToOwnDataset ==
    /\ \A d \in Data : \A k \in 1..Len(attached[d]) :
           objs[attached[d][k]].data = d
    /\ \A g \in Groups : \A i \in 1..Len(subsets[g]) :
           LET s == subsets[g][i]
               calls == attached[objs[s].data]
           IN  Cardinality({k \in 1..Len(calls) : calls[k] = s}) = 1

\* The 'style' notifications in a log.
StyleNotifications(l) ==
    {k \in 1..Len(l) : l[k].kind = "broadcast" /\ l[k].item = "style"}

\* C16: after an assignment to a group's attribute, every 'style'
\* notification that the assignment made a member emit was emitted when no
\* member of the group's list held an override.
C16_NoOverrideAtStyleNotification ==
    last = "__setattr__" =>
        \A k \in StyleNotifications(log) :
            LET seen == log[k].seen
                g == objs[log[k].subset].group
            IN  \A i \in 1..Len(seen.subsets[g]) :
                    seen.overrides[seen.subsets[g][i]] = None

\* C16, amended: every 'style' notification of the assignment was emitted
\* when the group already held the new style and neither the emitting member
\* nor a member before it in the list held an override; those that
\* SubsetGroup.broadcast forwarded were emitted when no member held one.
C16_NoOverrideUpToEmitter ==
    last = "__setattr__" =>
        \A k \in StyleNotifications(log) :
            LET seen == log[k].seen
                g == objs[log[k].subset].group
                list == seen.subsets[g]
            IN  /\ seen.style[g] = style[g]
                /\ \A i \in 1..Len(list) :
                       (\E j \in i..Len(list) : list[j] = log[k].subset)
                           => seen.overrides[list[i]] = None
                /\ log[k].via = "broadcast" =>
                       \A i \in 1..Len(list) : seen.overrides[list[i]] = None

\* A style assignment to a group of three members that all held an
\* override: the first one emitted while the other two still held theirs.
C16_Witness ==
    /\ last = "__setattr__"
    /\ Len(subsets[TheGroup]) = 3
    /\ Cardinality(Cleared(log)) = 3
    /\ \E k \in Cleared(log) :
           Cardinality({i \in 1..3 : log[k].seen.overrides[i] # None}) = 2

\* The members that were removed from their group's list.
Removed == {s \in Members : s \notin Range(subsets[objs[s].group])}

\* C17: a step that assigns an attribute of a group, changes its style
\* object or pastes into it makes no removed member emit a notification
\* and leaves every removed member's override as it was.
C17_RemovedMemberLeftAlone ==
    [][Called("__setattr__") \/ Called("broadcast") \/ Called("paste") =>
          \A s \in Removed :
              /\ \A k \in 1..Len(log') : log'[k].subset # s
              /\ objs'[s].style_override = objs[s].style_override
              /\ s \in Removed']_vars

\* A style assignment cleared the override of the member in the list while
\* a removed member kept the override it held.
C17_Witness ==
    /\ last = "__setattr__"
    /\ Cardinality(Cleared(log)) = 1
    /\ Cardinality(ForwardedFor(log, "style")) = 1
    /\ \E s \in Removed : objs[s].style_override = "o1"

\* C18: in every reachable state, assigning a label or a selection-state
\* through a removed member leaves the label and the selection-state of its
\* former group as they are and makes no member emit a notification.
C18_RemovedMemberCannotChangeGroup ==
    \A s \in Removed, attr \in {"subset_state", "label"} :
        \A value \in ValuesOf(attr) :
            LET W == Pointer_set(Start, s, attr, value)
                g == objs[s].group
            IN  /\ W.label[g] = label[g]
                /\ W.subset_state[g] = subset_state[g]
                /\ W.log = <<>>

====
